---- MODULE Spec2Model ----
(***************************************************************************)
(* A model of the CHIP-8 core of Epsylon42/Chip8 (src/src/system.rs and    *)
(* src/src/system/opcode.rs): the System value, System::load,              *)
(* System::tick with its decoder, System::dec_timers, and the key input    *)
(* the harness (src/src/main.rs) pushes between ticks.                     *)
(***************************************************************************)
EXTENDS Integers, Sequences, FiniteSets, TLC

(***************************************************************************)
(* Machine words.  u8 and u16 values are naturals; the Rust operators      *)
(* &, |, ^ are computed bit by bit.                                        *)
(***************************************************************************)
RECURSIVE BitAnd(_, _)
BitAnd(a, b) ==
    IF a = 0 \/ b = 0 THEN 0
    ELSE (a % 2) * (b % 2) + 2 * BitAnd(a \div 2, b \div 2)

RECURSIVE BitOr(_, _)
BitOr(a, b) ==
    IF a = 0 THEN b
    ELSE IF b = 0 THEN a
    ELSE (IF a % 2 = 1 \/ b % 2 = 1 THEN 1 ELSE 0) + 2 * BitOr(a \div 2, b \div 2)

RECURSIVE BitXor(_, _)
BitXor(a, b) ==
    IF a = 0 THEN b
    ELSE IF b = 0 THEN a
    ELSE (IF a % 2 = b % 2 THEN 0 ELSE 1) + 2 * BitXor(a \div 2, b \div 2)

RECURSIVE Pow2(_)
Pow2(n) == IF n = 0 THEN 1 ELSE 2 * Pow2(n - 1)

\* a >> n and, for a u8, a << n
Shr(a, n) == a \div Pow2(n)
Shl8(a, n) == (a * Pow2(n)) % 256

U8 == 0 .. 255

(***************************************************************************)
(* Program constants.                                                      *)
(***************************************************************************)
PROGRAM_START == \h200
MEM_LEN == 4096
STACK_LEN == 16
SCREEN_WIDTH == 64
SCREEN_HEIGHT == 32
SCREEN_LEN == (SCREEN_WIDTH * SCREEN_HEIGHT) \div 8

\* fonts::FONTS: the 80-byte hex-digit font copied to memory[0..80) by
\* System::default (five bytes per glyph, 16 glyphs).
FONTS ==
    << \hF0, \h90, \h90, \h90, \hF0,   \h20, \h60, \h20, \h20, \h70,
       \hF0, \h10, \hF0, \h80, \hF0,   \hF0, \h10, \hF0, \h10, \hF0,
       \h90, \h90, \hF0, \h10, \h10,   \hF0, \h80, \hF0, \h10, \hF0,
       \hF0, \h80, \hF0, \h90, \hF0,   \hF0, \h10, \h20, \h40, \h40,
       \hF0, \h90, \hF0, \h90, \hF0,   \hF0, \h90, \hF0, \h10, \hF0,
       \hF0, \h90, \hF0, \h90, \h90,   \hE0, \h90, \hE0, \h90, \hE0,
       \hF0, \h80, \h80, \h80, \hF0,   \hE0, \h90, \h90, \h90, \hE0,
       \hF0, \h80, \hF0, \h80, \hF0,   \hF0, \h80, \hF0, \h80, \h80 >>

(***************************************************************************)
(* The memory array mem: [u8; 4096] is held as the function of its nonzero *)
(* bytes (an address outside the domain holds 0), so that two memories are *)
(* equal exactly when the arrays are.                                      *)
(***************************************************************************)
MemGet(m, a) == IF a \in DOMAIN m THEN m[a] ELSE 0

MemSet(m, a, v) ==
    IF v = 0
    THEN [x \in (DOMAIN m) \ {a} |-> m[x]]
    ELSE [x \in (DOMAIN m) \cup {a} |-> IF x = a THEN v ELSE m[x]]

\* self.mem[start .. start + buf.len()].copy_from_slice(&buf)
MemCopy(m, start, buf) ==
    LET range == { start + i - 1 : i \in 1 .. Len(buf) }
        set   == { a \in range : buf[a - start + 1] # 0 }
    IN  [x \in ((DOMAIN m) \ range) \cup set |->
            IF x \in range THEN buf[x - start + 1] ELSE m[x]]

(***************************************************************************)
(* Opcode (a repr(u16) enum: each variant is its pattern).                 *)
(***************************************************************************)
ClearScreen == \h00E0
Return == \h00EE
Jump == \h1000
Call == \h2000
SkipIfEq == \h3000
SkipIfNeq == \h4000
SkipIfRegEq == \h5000
SetReg == \h6000
SAddReg == \h7000
MovReg == \h8000
OrReg == \h8001
AndReg == \h8002
XorReg == \h8003
AddReg == \h8004
SubReg == \h8005
RShiftReg == \h8006
RSubReg == \h8007
LShiftReg == \h800E
SkipIfRegNeq == \h9000
SetIndex == \hA000
JumpPlus == \hB000
Rand == \hC000
Draw == \hD000
SkipIfKeyPressed == \hE09E
SkipIfKeyNotPressed == \hE0A1
GetDelay == \hF007
BlockGetKey == \hF00A
SetDelay == \hF015
SetSound == \hF018
AddIndex == \hF01E
GetSprite == \hF029
BinCoded == \hF033
RegDump == \hF055
RegLoad == \hF065

ExactOps == { ClearScreen, Return }
LongOps == { Jump, Call, SkipIfEq, SkipIfNeq, SetReg, SAddReg, SetIndex,
             JumpPlus, Rand, Draw }
RegRegOps == { SkipIfRegEq, MovReg, OrReg, AndReg, XorReg, AddReg, SubReg,
               RShiftReg, RSubReg, LShiftReg, SkipIfRegNeq }
RegOps == { SkipIfKeyPressed, SkipIfKeyNotPressed, GetDelay, BlockGetKey,
            SetDelay, SetSound, AddIndex, GetSprite, BinCoded, RegDump, RegLoad }
Opcodes == ExactOps \cup LongOps \cup RegRegOps \cup RegOps

\* cmp comparing the first nibble only, whatever the variant
cmp_FamilyOnly(op, code) ==
    IF op \in ExactOps THEN code = op
    ELSE BitAnd(code, \hF000) = BitAnd(op, \hF000)

\* Opcode::cmp
cmp(op, code) ==
    IF op \in ExactOps THEN code = op
    ELSE IF op \in LongOps THEN BitAnd(code, \hF000) = op
    ELSE IF op \in RegRegOps THEN BitAnd(code, \hF00F) = op
    ELSE BitAnd(code, \hF0FF) = op

\* Opcode::get_arg1_u16
get_arg1_u16(code) == BitAnd(code, \h0FFF)
\* get_arg1_u8 taking the low byte of the word
get_arg1_u8_LowByte(code) == BitAnd(code, \h00FF)

\* Opcode::get_arg1_u8
get_arg1_u8(code) == Shr(BitAnd(code, \h0F00), 8)
\* Opcode::get_arg2, for the (X, KK) families and for the (X, Y) families
get_arg2_imm(code) == << Shr(BitAnd(code, \h0F00), 8), BitAnd(code, \h00FF) >>
get_arg2_reg(code) == << Shr(BitAnd(code, \h0F00), 8), Shr(BitAnd(code, \h00F0), 4) >>
\* Opcode::get_arg3
get_arg3(code) ==
    << Shr(BitAnd(code, \h0F00), 8), Shr(BitAnd(code, \h00F0), 4), BitAnd(code, \h000F) >>

(***************************************************************************)
(* The System value.  A state s is the record of its fields:               *)
(*   mem, screen            System.mem, System.screen                      *)
(*   reg, index, pc         System.registers                               *)
(*   stack, sp              System.stack                                   *)
(*   delay, sound           System.timers                                  *)
(*   keys                   System.keys                                    *)
(***************************************************************************)
\* impl Default for System (with Registers::default and the derived defaults)
DefaultSystem ==
    [ mem    |-> MemCopy(<<>>, 0, FONTS),
      screen |-> [i \in 0 .. SCREEN_LEN - 1 |-> 0],
      reg    |-> [i \in 0 .. 15 |-> 0],
      index  |-> 0,
      pc     |-> PROGRAM_START,
      stack  |-> [i \in 0 .. STACK_LEN - 1 |-> 0],
      sp     |-> 0,
      delay  |-> 0,
      sound  |-> 0,
      keys   |-> [i \in 0 .. 15 |-> 0] ]

(***************************************************************************)
(* What a call hands back: the System as the call leaves it, the result    *)
(* (kind "Ok", a SystemError variant, or "panic" when the call aborts the  *)
(* process) and the error's payload.  Inside tick, "Break" is an           *)
(* instruction body that falls through to the final pc += 2.               *)
(***************************************************************************)
Ok(s) == [s |-> s, kind |-> "Ok", arg |-> 0]
Break(s) == [s |-> s, kind |-> "Break", arg |-> 0]
Err(s, kind, arg) == [s |-> s, kind |-> kind, arg |-> arg]
Panic(s, arg) == [s |-> s, kind |-> "panic", arg |-> arg]

\* Registers::read / write / with: the index check
reg_ok(reg) == reg < 16
\* Registers::carry_set
carry_set(s, value) == [s EXCEPT !.reg[15] = value]
\* Registers::write, on a valid index
write(s, reg, value) == [s EXCEPT !.reg[reg] = value]

\* Keys::pressed, on a valid index
pressed(s, key) == s.keys[key] # 0

\* System::read_mem / System::write_mem: the bounds check
mem_ok(ptr) == ptr < MEM_LEN
read_mem(s, ptr) == MemGet(s.mem, ptr)
write_mem(s, ptr, data) == [s EXCEPT !.mem = MemSet(s.mem, ptr, data)]

\* read_mem_pair reporting the address of the byte that is out of range
read_mem_pair_ByteAddr(s, ptr) ==
    IF ~mem_ok(ptr) THEN Err(s, "InvalidMemoryAccess", ptr)
    ELSE IF ~mem_ok(ptr + 1) THEN Err(s, "InvalidMemoryAccess", ptr + 1)
    ELSE [s |-> s, kind |-> "Ok",
          arg |-> BitOr(read_mem(s, ptr) * 256, read_mem(s, ptr + 1))]

\* System::read_mem_pair
read_mem_pair(s, ptr) ==
    IF ~mem_ok(ptr) THEN Err(s, "InvalidMemoryAccess", ptr)
    ELSE IF ~mem_ok(ptr + 1) THEN Err(s, "InvalidMemoryAccess", ptr)
    ELSE [s |-> s, kind |-> "Ok",
          arg |-> BitOr(read_mem(s, ptr) * 256, read_mem(s, ptr + 1))]

\* System::fetch_instruction
fetch_instruction(s) == read_mem_pair(s, s.pc)

\* draw reporting the bit as it is after the XOR
draw_HitAfter(s, x, y, value) ==
    LET x_bit  == x % 8
        x_byte == x \div 8
        at     == (y * SCREEN_WIDTH) \div 8 + x_byte
    IN  IF at \in DOMAIN s.screen
        THEN LET v   == IF value THEN 1 ELSE 0
                 new == BitXor(s.screen[at], Shl8(v, 7 - x_bit))
             IN  [s |-> [s EXCEPT !.screen[at] = new],
                  hit |-> (BitAnd(Shr(new, 7 - x_bit), 1) # 0) /\ value]
        ELSE [s |-> s, hit |-> FALSE]

\* draw that sets the bit instead of toggling it
draw_Or(s, x, y, value) ==
    LET x_bit  == x % 8
        x_byte == x \div 8
        at     == (y * SCREEN_WIDTH) \div 8 + x_byte
    IN  IF at \in DOMAIN s.screen
        THEN LET current_bit == BitAnd(Shr(s.screen[at], 7 - x_bit), 1) # 0
                 v == IF value THEN 1 ELSE 0
             IN  [s |-> [s EXCEPT !.screen[at] = BitOr(@, Shl8(v, 7 - x_bit))],
                  hit |-> current_bit /\ value]
        ELSE [s |-> s, hit |-> FALSE]

\* System::draw: the new screen and the collision flag
draw(s, x, y, value) ==
    LET x_bit  == x % 8
        x_byte == x \div 8
        at     == (y * SCREEN_WIDTH) \div 8 + x_byte
    IN  IF at \in DOMAIN s.screen
        THEN LET current_bit == BitAnd(Shr(s.screen[at], 7 - x_bit), 1) # 0
                 v == IF value THEN 1 ELSE 0
             IN  [s |-> [s EXCEPT !.screen[at] = BitXor(@, Shl8(v, 7 - x_bit))],
                  hit |-> current_bit /\ value]
        ELSE [s |-> s, hit |-> FALSE]

(***************************************************************************)
(* The instruction bodies of System::tick.                                 *)
(***************************************************************************)
op_ClearScreen(s) == Break([s EXCEPT !.screen = [i \in 0 .. SCREEN_LEN - 1 |-> 0]])

\* RET that takes an empty stack for a return to the frame at 0
op_Return_NoUnderflow(s) ==
    IF s.sp = 0 THEN Break([s EXCEPT !.pc = s.stack[0]])
    ELSE Break([s EXCEPT !.sp = s.sp - 1, !.pc = s.stack[s.sp - 1]])

\* RET that returns from tick before the final pc += 2
op_Return_Jump(s) ==
    IF s.sp = 0 THEN Err(s, "StackUnderflow", 0)
    ELSE Ok([s EXCEPT !.sp = s.sp - 1, !.pc = s.stack[s.sp - 1]])

op_Return(s) ==
    IF s.sp = 0 THEN Err(s, "StackUnderflow", 0)
    ELSE Break([s EXCEPT !.sp = s.sp - 1, !.pc = s.stack[s.sp - 1]])

op_Jump(s, addr) == Ok([s EXCEPT !.pc = addr])

\* CALL pushing the address of the next instruction
op_Call_PushNext(s, addr) ==
    IF s.sp >= STACK_LEN THEN Err(s, "StackOverflow", 0)
    ELSE Ok([s EXCEPT !.stack[s.sp] = s.pc + 2, !.sp = s.sp + 1, !.pc = addr])

op_Call(s, addr) ==
    IF s.sp >= STACK_LEN THEN Err(s, "StackOverflow", 0)
    ELSE Ok([s EXCEPT !.stack[s.sp] = s.pc, !.sp = s.sp + 1, !.pc = addr])

skip(s) == [s EXCEPT !.pc = s.pc + 2]

op_SkipIfEq(s, reg, val) ==
    IF ~reg_ok(reg) THEN Err(s, "InvalidRegister", reg)
    ELSE IF s.reg[reg] = val THEN Break(skip(s)) ELSE Break(s)

op_SkipIfNeq(s, reg, val) ==
    IF ~reg_ok(reg) THEN Err(s, "InvalidRegister", reg)
    ELSE IF s.reg[reg] # val THEN Break(skip(s)) ELSE Break(s)

op_SkipIfRegEq(s, reg1, reg2) ==
    IF ~reg_ok(reg1) THEN Err(s, "InvalidRegister", reg1)
    ELSE IF ~reg_ok(reg2) THEN Err(s, "InvalidRegister", reg2)
    ELSE IF s.reg[reg1] = s.reg[reg2] THEN Break(skip(s)) ELSE Break(s)

op_SkipIfRegNeq(s, reg1, reg2) ==
    IF ~reg_ok(reg1) THEN Err(s, "InvalidRegister", reg1)
    ELSE IF ~reg_ok(reg2) THEN Err(s, "InvalidRegister", reg2)
    ELSE IF s.reg[reg1] # s.reg[reg2] THEN Break(skip(s)) ELSE Break(s)

op_SetReg(s, reg, val) ==
    IF ~reg_ok(reg) THEN Err(s, "InvalidRegister", reg)
    ELSE Break(write(s, reg, val))

op_SAddReg(s, reg, val) ==
    IF ~reg_ok(reg) THEN Err(s, "InvalidRegister", reg)
    ELSE Break(write(s, reg, (s.reg[reg] + val) % 256))

op_MovReg(s, reg1, reg2) ==
    IF ~reg_ok(reg2) THEN Err(s, "InvalidRegister", reg2)
    ELSE IF ~reg_ok(reg1) THEN Err(s, "InvalidRegister", reg1)
    ELSE Break(write(s, reg1, s.reg[reg2]))

op_OrReg(s, reg1, reg2) ==
    IF ~reg_ok(reg2) THEN Err(s, "InvalidRegister", reg2)
    ELSE IF ~reg_ok(reg1) THEN Err(s, "InvalidRegister", reg1)
    ELSE Break(write(s, reg1, BitOr(s.reg[reg1], s.reg[reg2])))

op_AndReg(s, reg1, reg2) ==
    IF ~reg_ok(reg2) THEN Err(s, "InvalidRegister", reg2)
    ELSE IF ~reg_ok(reg1) THEN Err(s, "InvalidRegister", reg1)
    ELSE Break(write(s, reg1, BitAnd(s.reg[reg1], s.reg[reg2])))

op_XorReg(s, reg1, reg2) ==
    IF ~reg_ok(reg2) THEN Err(s, "InvalidRegister", reg2)
    ELSE IF ~reg_ok(reg1) THEN Err(s, "InvalidRegister", reg1)
    ELSE Break(write(s, reg1, BitXor(s.reg[reg1], s.reg[reg2])))

\* ADD Vx,Vy storing the flag first and the sum after it
op_AddReg_FlagFirst(s, reg1, reg2) ==
    IF ~reg_ok(reg2) THEN Err(s, "InvalidRegister", reg2)
    ELSE IF ~reg_ok(reg1) THEN Err(s, "InvalidRegister", reg1)
    ELSE LET val      == s.reg[reg2]
             sum      == s.reg[reg1] + val
             overflow == sum > 255
             carry    == IF overflow THEN 1 ELSE 0
         IN  Break(write(carry_set(s, carry), reg1, sum % 256))

\* the result is stored in reg1 first, the flag in VF after it
op_AddReg(s, reg1, reg2) ==
    IF ~reg_ok(reg2) THEN Err(s, "InvalidRegister", reg2)
    ELSE IF ~reg_ok(reg1) THEN Err(s, "InvalidRegister", reg1)
    ELSE LET val      == s.reg[reg2]
             sum      == s.reg[reg1] + val
             overflow == sum > 255
             carry    == IF overflow THEN 1 ELSE 0
         IN  Break(carry_set(write(s, reg1, sum % 256), carry))

\* SUB Vx,Vy setting VF to the borrow
op_SubReg_Borrow(s, reg1, reg2) ==
    IF ~reg_ok(reg2) THEN Err(s, "InvalidRegister", reg2)
    ELSE IF ~reg_ok(reg1) THEN Err(s, "InvalidRegister", reg1)
    ELSE LET val      == s.reg[reg2]
             overflow == s.reg[reg1] < val
             new      == (s.reg[reg1] - val) % 256
             carry    == IF overflow THEN 1 ELSE 0
         IN  Break(carry_set(write(s, reg1, new), carry))

op_SubReg(s, reg1, reg2) ==
    IF ~reg_ok(reg2) THEN Err(s, "InvalidRegister", reg2)
    ELSE IF ~reg_ok(reg1) THEN Err(s, "InvalidRegister", reg1)
    ELSE LET val      == s.reg[reg2]
             overflow == s.reg[reg1] < val
             new      == (s.reg[reg1] - val) % 256
             carry    == IF ~overflow THEN 1 ELSE 0
         IN  Break(carry_set(write(s, reg1, new), carry))

op_RShiftReg(s, reg) ==
    IF ~reg_ok(reg) THEN Err(s, "InvalidRegister", reg)
    ELSE LET bit == BitAnd(s.reg[reg], 1)
         IN  Break(carry_set(write(s, reg, Shr(s.reg[reg], 1)), bit))

op_RSubReg(s, reg1, reg2) ==
    IF ~reg_ok(reg2) THEN Err(s, "InvalidRegister", reg2)
    ELSE IF ~reg_ok(reg1) THEN Err(s, "InvalidRegister", reg1)
    ELSE LET val      == s.reg[reg2]
             overflow == val < s.reg[reg1]
             new      == (val - s.reg[reg1]) % 256
             carry    == IF ~overflow THEN 1 ELSE 0
         IN  Break(carry_set(write(s, reg1, new), carry))

op_LShiftReg(s, reg) ==
    IF ~reg_ok(reg) THEN Err(s, "InvalidRegister", reg)
    ELSE LET bit == BitAnd(Shr(s.reg[reg], 7), 1)
         IN  Break(carry_set(write(s, reg, Shl8(s.reg[reg], 1)), bit))

op_SetIndex(s, x) == Break([s EXCEPT !.index = x])

\* JP V0+addr that falls through to the final pc += 2
op_JumpPlus_Advance(s, addr) ==
    IF ~reg_ok(0) THEN Err(s, "InvalidRegister", 0)
    ELSE Break([s EXCEPT !.pc = s.reg[0] + addr])

op_JumpPlus(s, addr) ==
    IF ~reg_ok(0) THEN Err(s, "InvalidRegister", 0)
    ELSE Ok([s EXCEPT !.pc = s.reg[0] + addr])

\* rnd is the byte rand::random::<u8>() returns
op_Rand(s, reg, pattern, rnd) ==
    IF ~reg_ok(reg) THEN Err(s, "InvalidRegister", reg)
    ELSE Break(write(s, reg, BitAnd(rnd, pattern)))

\* index += Vx as u16: a u16 addition.  When the sum passes 0xFFFF a build
\* with overflow checks (the debug profile) panics and one without (the
\* release profile) wraps; checks says which build runs.
op_AddIndex(s, reg, checks) ==
    IF ~reg_ok(reg) THEN Err(s, "InvalidRegister", reg)
    ELSE LET sum == s.index + s.reg[reg]
         IN  IF sum > 65535 /\ checks THEN Panic(s, sum)
             ELSE Break([s EXCEPT !.index = sum % 65536])

\* Keys::pressed is given the opcode's argument itself
op_SkipIfKeyPressed(s, key) ==
    IF ~(key < 16) THEN Err(s, "InvalidKey", key)
    ELSE IF pressed(s, key) THEN Break(skip(s)) ELSE Break(s)

op_SkipIfKeyNotPressed(s, key) ==
    IF ~(key < 16) THEN Err(s, "InvalidKey", key)
    ELSE IF ~pressed(s, key) THEN Break(skip(s)) ELSE Break(s)

op_GetDelay(s, reg) ==
    IF ~reg_ok(reg) THEN Err(s, "InvalidRegister", reg)
    ELSE Break(write(s, reg, s.delay))

\* unimplemented!("BlockGetKey opcode")
op_BlockGetKey(s, reg) == Panic(s, reg)

op_SetDelay(s, reg) ==
    IF ~reg_ok(reg) THEN Err(s, "InvalidRegister", reg)
    ELSE Break([s EXCEPT !.delay = s.reg[reg]])

op_SetSound(s, reg) ==
    IF ~reg_ok(reg) THEN Err(s, "InvalidRegister", reg)
    ELSE Break([s EXCEPT !.sound = s.reg[reg]])

op_GetSprite(s, reg) ==
    IF ~reg_ok(reg) THEN Err(s, "InvalidRegister", reg)
    ELSE Break([s EXCEPT !.index = 5 * s.reg[reg]])

\* three write_mem calls in turn, each returning its error at once
op_BinCoded(s, reg) ==
    IF ~reg_ok(reg) THEN Err(s, "InvalidRegister", reg)
    ELSE LET val0   == s.reg[reg]
             first  == val0 \div 100
             val1   == val0 % 100
             second == val1 \div 10
             third  == val1 % 10
             s1     == write_mem(s, s.index, first)
             s2     == write_mem(s1, s.index + 1, second)
             s3     == write_mem(s2, s.index + 2, third)
         IN  IF ~mem_ok(s.index) THEN Err(s, "InvalidMemoryAccess", s.index)
             ELSE IF ~mem_ok(s.index + 1) THEN Err(s1, "InvalidMemoryAccess", s.index + 1)
             ELSE IF ~mem_ok(s.index + 2) THEN Err(s2, "InvalidMemoryAccess", s.index + 2)
             ELSE Break(s3)

\* for i in 0..=reg { write_mem(index + i, read(i)?)? }
RECURSIVE RegDumpFrom(_, _, _)
RegDumpFrom(s, reg, i) ==
    IF i > reg THEN Break(s)
    ELSE IF ~reg_ok(i) THEN Err(s, "InvalidRegister", i)
    ELSE IF ~mem_ok(s.index + i) THEN Err(s, "InvalidMemoryAccess", s.index + i)
    ELSE RegDumpFrom(write_mem(s, s.index + i, s.reg[i]), reg, i + 1)

\* LD [I],Vx that leaves I after the last byte written
op_RegDump_AdvanceI(s, reg) ==
    LET d == RegDumpFrom(s, reg, 0)
    IN  IF d.kind = "Break" THEN Break([d.s EXCEPT !.index = s.index + reg + 1]) ELSE d

op_RegDump(s, reg) == RegDumpFrom(s, reg, 0)

\* for i in 0..=reg { write(i, read_mem(index + i)?)? }
RECURSIVE RegLoadFrom(_, _, _)
RegLoadFrom(s, reg, i) ==
    IF i > reg THEN Break(s)
    ELSE IF ~mem_ok(s.index + i) THEN Err(s, "InvalidMemoryAccess", s.index + i)
    ELSE IF ~reg_ok(i) THEN Err(s, "InvalidRegister", i)
    ELSE RegLoadFrom(write(s, i, read_mem(s, s.index + i)), reg, i + 1)

op_RegLoad(s, reg) == RegLoadFrom(s, reg, 0)

\* a sprite row whose columns are not reduced modulo the screen width
RECURSIVE DrawPixelsFrom_Clip(_, _, _, _, _, _, _)
DrawPixelsFrom_Clip(s, x, y, byte, value, pixel, carry) ==
    IF pixel >= 8 THEN [s |-> s, carry |-> carry]
    ELSE LET d == draw(s, (x % SCREEN_WIDTH) + pixel, (y + byte) % SCREEN_HEIGHT,
                       BitAnd(Shr(value, 7 - pixel), 1) # 0)
         IN  DrawPixelsFrom_Clip(d.s, x, y, byte, value, pixel + 1, carry \/ d.hit)

\* for pixel in 0..8: one sprite row XORed into the screen
RECURSIVE DrawPixelsFrom(_, _, _, _, _, _, _)
DrawPixelsFrom(s, x, y, byte, value, pixel, carry) ==
    IF pixel >= 8 THEN [s |-> s, carry |-> carry]
    ELSE LET d == draw(s, (x + pixel) % SCREEN_WIDTH, (y + byte) % SCREEN_HEIGHT,
                       BitAnd(Shr(value, 7 - pixel), 1) # 0)
         IN  DrawPixelsFrom(d.s, x, y, byte, value, pixel + 1, carry \/ d.hit)

\* for byte in 0..height: read the row, draw it; VF is set after the last row
RECURSIVE DrawRowsFrom(_, _, _, _, _, _)
DrawRowsFrom(s, x, y, height, byte, carry) ==
    IF byte >= height THEN Break(carry_set(s, IF carry THEN 1 ELSE 0))
    ELSE IF ~mem_ok(s.index + byte) THEN Err(s, "InvalidMemoryAccess", s.index + byte)
    ELSE LET r == DrawPixelsFrom(s, x, y, byte, read_mem(s, s.index + byte), 0, carry)
         IN  DrawRowsFrom(r.s, x, y, height, byte + 1, r.carry)

op_Draw(s, rx, ry, height) ==
    IF ~reg_ok(rx) THEN Err(s, "InvalidRegister", rx)
    ELSE IF ~reg_ok(ry) THEN Err(s, "InvalidRegister", ry)
    ELSE DrawRowsFrom(s, s.reg[rx], s.reg[ry], height, 0, FALSE)

\* otherwise: unimplemented!("Unknown opcode: {:X}", x)
op_otherwise(s, x) == Panic(s, x)

(***************************************************************************)
(* match_opcodes!: the families are tried in the order tick lists them and *)
(* the first whose cmp holds runs.                                         *)
(***************************************************************************)
match_opcodes(s, opcode, rnd, checks) ==
    LET imm == get_arg2_imm(opcode)
        rr  == get_arg2_reg(opcode)
        a3  == get_arg3(opcode)
    IN
    IF cmp(ClearScreen, opcode) THEN op_ClearScreen(s)
    ELSE IF cmp(Return, opcode) THEN op_Return(s)
    ELSE IF cmp(Jump, opcode) THEN op_Jump(s, get_arg1_u16(opcode))
    ELSE IF cmp(Call, opcode) THEN op_Call(s, get_arg1_u16(opcode))
    ELSE IF cmp(SkipIfEq, opcode) THEN op_SkipIfEq(s, imm[1], imm[2])
    ELSE IF cmp(SkipIfNeq, opcode) THEN op_SkipIfNeq(s, imm[1], imm[2])
    ELSE IF cmp(SkipIfRegEq, opcode) THEN op_SkipIfRegEq(s, rr[1], rr[2])
    ELSE IF cmp(SkipIfRegNeq, opcode) THEN op_SkipIfRegNeq(s, rr[1], rr[2])
    ELSE IF cmp(SetReg, opcode) THEN op_SetReg(s, imm[1], imm[2])
    ELSE IF cmp(SAddReg, opcode) THEN op_SAddReg(s, imm[1], imm[2])
    ELSE IF cmp(MovReg, opcode) THEN op_MovReg(s, rr[1], rr[2])
    ELSE IF cmp(OrReg, opcode) THEN op_OrReg(s, rr[1], rr[2])
    ELSE IF cmp(AndReg, opcode) THEN op_AndReg(s, rr[1], rr[2])
    ELSE IF cmp(XorReg, opcode) THEN op_XorReg(s, rr[1], rr[2])
    ELSE IF cmp(AddReg, opcode) THEN op_AddReg(s, rr[1], rr[2])
    ELSE IF cmp(SubReg, opcode) THEN op_SubReg(s, rr[1], rr[2])
    ELSE IF cmp(RShiftReg, opcode) THEN op_RShiftReg(s, rr[1])
    ELSE IF cmp(RSubReg, opcode) THEN op_RSubReg(s, rr[1], rr[2])
    ELSE IF cmp(LShiftReg, opcode) THEN op_LShiftReg(s, rr[1])
    ELSE IF cmp(SetIndex, opcode) THEN op_SetIndex(s, get_arg1_u16(opcode))
    ELSE IF cmp(JumpPlus, opcode) THEN op_JumpPlus(s, get_arg1_u16(opcode))
    ELSE IF cmp(Rand, opcode) THEN op_Rand(s, imm[1], imm[2], rnd)
    ELSE IF cmp(AddIndex, opcode) THEN op_AddIndex(s, get_arg1_u8(opcode), checks)
    ELSE IF cmp(SkipIfKeyPressed, opcode) THEN op_SkipIfKeyPressed(s, get_arg1_u8(opcode))
    ELSE IF cmp(SkipIfKeyNotPressed, opcode) THEN op_SkipIfKeyNotPressed(s, get_arg1_u8(opcode))
    ELSE IF cmp(GetDelay, opcode) THEN op_GetDelay(s, get_arg1_u8(opcode))
    ELSE IF cmp(BlockGetKey, opcode) THEN op_BlockGetKey(s, get_arg1_u8(opcode))
    ELSE IF cmp(SetDelay, opcode) THEN op_SetDelay(s, get_arg1_u8(opcode))
    ELSE IF cmp(SetSound, opcode) THEN op_SetSound(s, get_arg1_u8(opcode))
    ELSE IF cmp(GetSprite, opcode) THEN op_GetSprite(s, get_arg1_u8(opcode))
    ELSE IF cmp(BinCoded, opcode) THEN op_BinCoded(s, get_arg1_u8(opcode))
    ELSE IF cmp(RegDump, opcode) THEN op_RegDump(s, get_arg1_u8(opcode))
    ELSE IF cmp(RegLoad, opcode) THEN op_RegLoad(s, get_arg1_u8(opcode))
    ELSE IF cmp(Draw, opcode) THEN op_Draw(s, a3[1], a3[2], a3[3])
    ELSE op_otherwise(s, opcode)

\* a tick that hands the zero word to the decoder
zero_instruction_Never(opcode) == FALSE

\* the zero-word test between the fetch and the decoder
zero_instruction(opcode) == opcode = 0

\* the statement after match_opcodes!: self.registers.pc += 2
advance(s) == [s EXCEPT !.pc = s.pc + 2]

\* System::tick
tick(s, rnd, checks) ==
    LET f == fetch_instruction(s)
    IN  IF f.kind # "Ok" THEN f
        ELSE IF zero_instruction(f.arg) THEN Err(s, "ZeroInstruction", 0)
        ELSE LET b == match_opcodes(s, f.arg, rnd, checks)
             IN  IF b.kind = "Break" THEN Ok(advance(b.s)) ELSE b

\* dec_timers with wrapping subtraction
dec_timers_Wrapping(s) ==
    LET delay      == (s.delay + 255) % 256
        prev_sound == s.sound
        sound      == (s.sound + 255) % 256
    IN  [s |-> [s EXCEPT !.delay = delay, !.sound = sound],
         kind |-> IF prev_sound # 0 /\ sound = 0 THEN "true" ELSE "false",
         arg |-> 0]

\* System::dec_timers: the new System and the value returned
dec_timers(s) ==
    LET delay      == IF s.delay = 0 THEN 0 ELSE s.delay - 1
        prev_sound == s.sound
        sound      == IF s.sound = 0 THEN 0 ELSE s.sound - 1
    IN  [s |-> [s EXCEPT !.delay = delay, !.sound = sound],
         kind |-> IF prev_sound # 0 /\ sound = 0 THEN "true" ELSE "false",
         arg |-> 0]

\* load refusing a stream that fills memory to its last byte
load_Inclusive(s, buf) ==
    IF Len(buf) >= MEM_LEN - PROGRAM_START THEN Err(s, "ProgramTooLarge", 0)
    ELSE Ok([s EXCEPT !.mem = MemCopy(s.mem, PROGRAM_START, buf)])

\* System::load, given the bytes read_to_end collected
load(s, buf) ==
    IF Len(buf) > MEM_LEN - PROGRAM_START THEN Err(s, "ProgramTooLarge", 0)
    ELSE Ok([s EXCEPT !.mem = MemCopy(s.mem, PROGRAM_START, buf)])

\* System::process_key_event(key, pressed): the key edge the harness pushes
process_key_event(s, key, down) ==
    IF ~(key < 16) THEN Err(s, "InvalidKey", key)
    ELSE Ok([s EXCEPT !.keys[key] = IF down THEN 1 ELSE 0])

(***************************************************************************)
(* Inputs.                                                                 *)
(***************************************************************************)
\* a ROM given as 16-bit words, as the byte stream load reads (big-endian)
RECURSIVE Bytes(_)
Bytes(words) ==
    IF words = <<>> THEN <<>>
    ELSE << Head(words) \div 256, Head(words) % 256 >> \o Bytes(Tail(words))

\* main loads one ROM into the System it runs
MaxLoads == 1

\* a ROM that nests n calls and returns from each: main calls A1 and then
\* spins at 0x202; Ak (at 0x204 + 4(k-1)) calls Ak+1 and returns; An returns
RECURSIVE CallChain(_, _)
CallChain(k, n) ==
    IF k >= n THEN << \h00EE >>
    ELSE << \h2000 + \h204 + 4 * k, \h00EE >> \o CallChain(k + 1, n)

DeepCalls(n) == << \h2204, \h1202 >> \o CallChain(1, n)

\* how far past the 16 frames of the stack the nested ROMs go
ExtraDepth == 1

\* a stream of n bytes: JP 0x200, zeros, and 0xAA as its last byte
Filled(n) ==
    [i \in 1 .. n |-> IF i = 1 THEN \h12 ELSE IF i = n THEN \hAA ELSE 0]

\* a stream that fills memory: JP 0xFFE, then LD V0,0xFF and JP V0+0xFFF
\* at 0x202, and the word last as the last instruction, at 0xFFE
LastWord(last) ==
    [i \in 1 .. MEM_LEN - PROGRAM_START |->
        IF i = 1 THEN \h1F ELSE IF i = 2 THEN \hFE
        ELSE IF i = 3 THEN \h60 ELSE IF i = 4 THEN \hFF
        ELSE IF i = 5 THEN \hBF ELSE IF i = 6 THEN \hFF
        ELSE IF i = MEM_LEN - PROGRAM_START - 1 THEN last \div 256
        ELSE IF i = MEM_LEN - PROGRAM_START THEN last % 256
        ELSE 0]

\* the largest value the timer ROMs give the timers
MaxTimer == 3

\* the ROMs load is given
Programs ==
    { Bytes(DeepCalls(n)) : n \in 1 .. STACK_LEN + ExtraDepth } \cup
    { Bytes(<< \h6000 + v, \hF018, \hF015, \h1206 >>) : v \in 0 .. MaxTimer } \cup
    { Filled(n) : n \in { 3583, 3584, 3585, 3586 } } \cup
    { LastWord(w) : w \in { \h2202, \h3000, \h4000, \h6000 } } \cup
    { Bytes(p) : p \in {
        \* CALL / RET
        << \h2204, \h0000, \h00EE >>,
        << \h2200 >>,
        << \h2204, \h1202, \h2208, \h00EE, \h00EE >>,
        << \h00EE >>,
        \* jumps to the end of memory, to an odd address
        << \h1FFF >>,
        << \h1FFE >>,
        << \h60FF, \hBFFF >>,
        << \h1203, \h0060, \h0500 >>,
        \* memory instructions that run off the end of memory
        << \hAFFE, \h607B, \hF033 >>,
        << \h60FF, \hAFFF, \hF155 >>,
        << \h6007, \hAFFF, \hF165 >>,
        << \h60FF, \hAFFF, \hF055, \hD002 >>,
        \* skips
        << \h3000, \h0000, \h4000, \h5010, \h0000, \h9010, \h6001 >>,
        << \h6001, \h3000, \h4000, \h0000, \h5010, \h9010, \h0000, \h6002 >>,
        << \h6105, \hE19E, \h0000, \hE1A1 >>,
        \* JP V0+addr below 0x1000, LD F,Vx on a digit and on a wider value
        << \h6004, \hB200, \h0000, \h6001 >>,
        << \h6007, \hF029 >>,
        << \h60FF, \hF029 >>,
        \* words no family matches, and LD Vx,K
        << \h0123 >>, << \h5011 >>, << \h8018 >>, << \hE000 >>, << \hF0FF >>,
        << \hF00A, \h6001 >>,
        \* LD [I],Vx, the registers overwritten, LD Vx,[I]: X = 3, X = 0, and
        \* X = 15 with its last byte at 0xFFF
        << \h6011, \h6122, \h6233, \h6344, \hA300, \hF355,
           \h6000, \h6199, \h6200, \h6300, \hF365, \h0000 >>,
        << \h6055, \hA300, \hF055, \h6000, \hF065 >>,
        << \h6001, \h6707, \h6FFF, \hAFF0, \hFF55,
           \h6000, \h6700, \h6F00, \hFF65 >>,
        \* ADD I,Vx repeated until I passes 0xFFFF: V1 counts the additions
        << \hAFFF, \h60FF, \h61F2, \hF01E, \h71FF, \h3100, \h1206, \h0000 >>,
        \* timers, random numbers, ALU, sprites
        << \h6002, \hF015, \hF018, \hF107 >>,
        << \hC00F >>,
        << \h60FF, \h7001 >>,
        << \h6005, \h6103, \h8015 >>,
        << \h6003, \h6105, \h8015 >>,
        << \h600A, \h610A, \hA000, \hD015 >>,
        << \hA20A, \h600A, \h610A, \hD011, \h1200, \hFF00 >> } }

\* the keys the host presses and releases
KeySamples == { 1, 5 }

\* the bytes rand::random::<u8>() is taken to return
RandSamples == { \h00, \h5A, \hFF }

(***************************************************************************)
(* State.                                                                  *)
(*   mem .. keys   the fields of the one System value                      *)
(*   result        the last call made on it and what it returned           *)
(*   callers       history: for each CALL not yet returned from, its        *)
(*                 address and the stack pointer before it                 *)
(*   loads         history: the number of ROMs loaded                      *)
(*   drawn         history: the last DRW that succeeded (its word, I, Vx,  *)
(*                 Vy, sprite bytes, the screen before and after it)       *)
(*   dumped        history: the last LD [I],Vx that succeeded (its X, I,   *)
(*                 the registers at the dump and the memory after it)      *)
(*   armed         history: the value the last LD ST,Vx gave the sound     *)
(*                 timer, the dec_timers calls since (counted up to one    *)
(*                 past that value) and how many of them returned true     *)
(*   phase         where the harness (main, Chip8::run) stands: "main"     *)
(*                 before the ROM is loaded, "tick", "timers", "draw",     *)
(*                 "poll" in the run loop, "display", "display_sleep" in   *)
(*                 display_loop, "exit_ok", "exit_err", "panic" once over  *)
(*   exit          the exit event waiting in the window's event queue:     *)
(*                 "escape" (the one event map_key maps to Exit) or "none" *)
(*   due           Instant::now() has reached next_update                  *)
(***************************************************************************)
VARIABLES mem, screen, reg, index, pc, stack, sp, delay, sound, keys,
          result, callers, loads, drawn, dumped, armed, phase, exit, due

sysvars == << mem, screen, reg, index, pc, stack, sp, delay, sound, keys >>
vars == << mem, screen, reg, index, pc, stack, sp, delay, sound, keys,
           result, callers, loads, drawn, dumped, armed, phase, exit, due >>
harnessvars == << phase, exit, due >>

System ==
    [ mem |-> mem, screen |-> screen, reg |-> reg, index |-> index, pc |-> pc,
      stack |-> stack, sp |-> sp, delay |-> delay, sound |-> sound, keys |-> keys ]

Becomes(s) ==
    /\ mem' = s.mem
    /\ screen' = s.screen
    /\ reg' = s.reg
    /\ index' = s.index
    /\ pc' = s.pc
    /\ stack' = s.stack
    /\ sp' = s.sp
    /\ delay' = s.delay
    /\ sound' = s.sound
    /\ keys' = s.keys

Starts(s) ==
    /\ mem = s.mem
    /\ screen = s.screen
    /\ reg = s.reg
    /\ index = s.index
    /\ pc = s.pc
    /\ stack = s.stack
    /\ sp = s.sp
    /\ delay = s.delay
    /\ sound = s.sound
    /\ keys = s.keys

Returned(op, o) == [op |-> op, kind |-> o.kind, arg |-> o.arg]

\* the bytes memory[I .. I + n - 1], the sprite a DRW of n rows reads
Sprite(s, n) == [r \in 1 .. n |-> MemGet(s.mem, s.index + r - 1)]

\* no DRW, no LD [I],Vx, no LD ST,Vx yet
NoDraw ==
    [ w |-> 0, index |-> 0, vx |-> 0, vy |-> 0, sprite |-> << >>,
      before |-> DefaultSystem.screen, after |-> DefaultSystem.screen ]
NoDump == [ x |-> 16, index |-> 0, reg |-> DefaultSystem.reg, mem |-> DefaultSystem.mem ]
NoSound == [ s |-> 0, n |-> 0, trues |-> 0 ]

\* the process is gone once a call has panicked
Running == result.kind # "panic"

\* Chip8::new: System::default()
Init ==
    /\ Starts(DefaultSystem)
    /\ result = [op |-> "new", kind |-> "Ok", arg |-> 0]
    /\ callers = <<>>
    /\ loads = 0
    /\ drawn = NoDraw
    /\ dumped = NoDump
    /\ armed = NoSound
    /\ phase = "main"
    /\ exit = "none"
    /\ due = FALSE

\* the word tick will fetch, 0 when the fetch fails
NextWord == LET f == fetch_instruction(System) IN IF f.kind = "Ok" THEN f.arg ELSE 0

\* chip.system.load(...)
LoadStep ==
    /\ Running
    /\ loads < MaxLoads
    /\ \E buf \in Programs :
       \E o \in { load(System, buf) } :
          /\ Becomes(o.s)
          /\ result' = Returned("load", o)
    /\ loads' = loads + 1
    /\ UNCHANGED << callers, drawn, dumped, armed >>

\* the calls as made in any order, the harness left aside
Load == LoadStep /\ UNCHANGED harnessvars

\* self.system.tick(&mut debug)
TickStep ==
    /\ Running
    /\ \E w \in { NextWord } :
       \E rnd \in (IF cmp(Rand, w) THEN RandSamples ELSE {0}),
          checks \in (IF cmp(AddIndex, w) THEN BOOLEAN ELSE {FALSE}) :
       \E o \in { tick(System, rnd, checks) } :
          /\ Becomes(o.s)
          /\ result' = Returned("tick", o)
          /\ callers' =
                IF o.kind = "Ok" /\ cmp(Call, w)
                THEN << [addr |-> pc, sp |-> sp] >> \o callers
                ELSE IF o.kind = "Ok" /\ cmp(Return, w)
                THEN Tail(callers)
                ELSE callers
          /\ drawn' =
                IF o.kind = "Ok" /\ cmp(Draw, w)
                THEN [ w |-> w, index |-> index,
                       vx |-> reg[get_arg3(w)[1]], vy |-> reg[get_arg3(w)[2]],
                       sprite |-> Sprite(System, get_arg3(w)[3]),
                       before |-> screen, after |-> o.s.screen ]
                ELSE drawn
          /\ dumped' =
                IF o.kind = "Ok" /\ cmp(RegDump, w)
                THEN [ x |-> get_arg1_u8(w), index |-> index, reg |-> reg,
                       mem |-> o.s.mem ]
                ELSE dumped
          /\ armed' =
                IF o.kind = "Ok" /\ cmp(SetSound, w)
                THEN [ s |-> o.s.sound, n |-> 0, trues |-> 0 ]
                ELSE armed
    /\ UNCHANGED loads

Tick == TickStep /\ UNCHANGED harnessvars

\* self.system.dec_timers()
DecTimersStep ==
    /\ Running
    /\ \E o \in { dec_timers(System) } :
          /\ Becomes(o.s)
          /\ result' = Returned("dec_timers", o)
          /\ armed' =
                IF armed.s = 0 THEN armed
                ELSE [ armed EXCEPT
                         !.n = IF @ > armed.s THEN @ ELSE @ + 1,
                         !.trues = IF o.kind = "true" /\ @ < 2 THEN @ + 1 ELSE @ ]
    /\ UNCHANGED << callers, loads, drawn, dumped >>

DecTimers == DecTimersStep /\ UNCHANGED harnessvars

\* sys.process_key_event(key, pressed), for a key event map_key recognised
ProcessKeyEventStep ==
    /\ Running
    /\ \E key \in KeySamples, down \in BOOLEAN :
       \E o \in { process_key_event(System, key, down) } :
          /\ Becomes(o.s)
          /\ result' = Returned("process_key_event", o)
    /\ UNCHANGED << callers, loads, drawn, dumped, armed >>

ProcessKeyEvent == ProcessKeyEventStep /\ UNCHANGED harnessvars

Next == Load \/ Tick \/ DecTimers \/ ProcessKeyEvent

Spec == Init /\ [][Next]_vars

(***************************************************************************)
(* The instructions over a range of operands: a ROM sets V0, V1 and VF     *)
(* with LD Vx,KK and then holds one instruction word.                      *)
(***************************************************************************)
\* how far the operand values reach from 0, 128 and 255
EdgeWidth == 1

ByteSamples ==
    { v \in U8 : \/ v <= EdgeWidth
                 \/ v >= 255 - EdgeWidth
                 \/ (128 - EdgeWidth <= v /\ v <= 128 + EdgeWidth) }

\* the flag-setting ALU instructions on (V0, V1), (V0, VF), (VF, V1), (VF, VF)
AluWords ==
    { \h8000 + 256 * x + 16 * y + n :
        x \in { 0, 15 }, y \in { 1, 15 }, n \in { 4, 5, 6, 7, 14 } }

OpPrograms ==
    { Bytes(<< \h6000 + v0, \h6100 + v1, \h6F00 + vf, w >>) :
        v0 \in ByteSamples, v1 \in ByteSamples, vf \in ByteSamples, w \in AluWords }

\* chip.system.load(...) of one of these ROMs
LoadOp ==
    /\ Running
    /\ loads < MaxLoads
    /\ \E buf \in OpPrograms :
       \E o \in { load(System, buf) } :
          /\ Becomes(o.s)
          /\ result' = Returned("load", o)
    /\ loads' = loads + 1
    /\ UNCHANGED << callers, drawn, dumped, armed >>
    /\ UNCHANGED harnessvars

NextOp == LoadOp \/ Tick

SpecOp == Init /\ [][NextOp]_vars

(***************************************************************************)
(* DRW over a range of positions, heights and sprites: a ROM draws a       *)
(* sprite at (x, y), moves it dx columns to the right, and draws it twice  *)
(* more; the sprite's 15 bytes follow the code at 0x210.                   *)
(***************************************************************************)
\* how far the second position is from the first
ShiftMax == 1

\* sprite data: every bit set, a mixed pattern, no bit set
SpriteSamples ==
    { [r \in 1 .. 15 |-> \hFF],
      [r \in 1 .. 15 |-> IF r % 3 = 1 THEN \h81 ELSE IF r % 3 = 2 THEN \h00 ELSE \h5A],
      [r \in 1 .. 15 |-> 0] }

DrawPrograms ==
    { Bytes(<< \hA210, \h6000 + 256 * rx + x, \h6100 + y,
               \hD010 + 256 * rx + n, \h7000 + 256 * rx + dx,
               \hD010 + 256 * rx + n, \hD010 + 256 * rx + n, \h0000 >>) \o sprite :
        rx \in { 0, 15 }, x \in { 0, 61, 255 }, y \in { 0, 30, 255 },
        n \in { 0, 1, 3, 15 }, dx \in 0 .. ShiftMax, sprite \in SpriteSamples }

\* chip.system.load(...) of one of these ROMs
LoadDraw ==
    /\ Running
    /\ loads < MaxLoads
    /\ \E buf \in DrawPrograms :
       \E o \in { load(System, buf) } :
          /\ Becomes(o.s)
          /\ result' = Returned("load", o)
    /\ loads' = loads + 1
    /\ UNCHANGED << callers, drawn, dumped, armed >>
    /\ UNCHANGED harnessvars

NextDraw == LoadDraw \/ Tick

SpecDraw == Init /\ [][NextDraw]_vars

(***************************************************************************)
(* The decoder over every 16-bit word: a ROM of one word, and ticks.       *)
(***************************************************************************)
WordPrograms == { Bytes(<< w >>) : w \in 0 .. 65535 }

\* chip.system.load(...) of one of these ROMs
LoadWord ==
    /\ Running
    /\ loads < MaxLoads
    /\ \E buf \in WordPrograms :
       \E o \in { load(System, buf) } :
          /\ Becomes(o.s)
          /\ result' = Returned("load", o)
    /\ loads' = loads + 1
    /\ UNCHANGED << callers, drawn, dumped, armed >>
    /\ UNCHANGED harnessvars

NextDecode == LoadWord \/ Tick

SpecDecode == Init /\ [][NextDecode]_vars

(***************************************************************************)
(* The harness: main loads the ROM and calls Chip8::run, whose loop calls  *)
(* tick, dec_timers, draws when next_update is reached, sleeps and polls   *)
(* the window's events; a ZeroInstruction sends it into display_loop.      *)
(***************************************************************************)
RunPrograms ==
    { Bytes(p) : p \in {
        << \h2204, \h0000, \h00EE >>,
        << \h1200 >>,
        << \h00EE >>,
        << \h0123 >>,
        << \h6003, \hF018, \hF015, \h1206 >>,
        << \h6105, \hE19E, \h0000, \hE1A1 >> } } \cup { Filled(3585) }

\* the harness has returned from run, or the process has panicked
Terminated == { "exit_ok", "exit_err", "panic" }

\* main: chip.system.load_from_file(...).unwrap()
RunLoad ==
    /\ phase = "main"
    /\ \E buf \in RunPrograms :
       \E o \in { load(System, buf) } :
          /\ Becomes(o.s)
          /\ result' = Returned("load", o)
          /\ phase' = IF o.kind = "Ok" THEN "tick" ELSE "panic"
    /\ loads' = loads + 1
    /\ UNCHANGED << callers, drawn, dumped, armed, exit, due >>

\* run: let res = self.system.tick(..); ZeroInstruction enters display_loop,
\* any other error is returned
RunTick ==
    /\ phase = "tick"
    /\ TickStep
    /\ phase' = IF result'.kind = "Ok" THEN "timers"
                ELSE IF result'.kind = "ZeroInstruction" THEN "display"
                ELSE IF result'.kind = "panic" THEN "panic"
                ELSE "exit_err"
    /\ UNCHANGED << exit, due >>

\* run: if self.system.dec_timers() { println!("Beep!") }
RunDecTimers ==
    /\ phase = "timers"
    /\ DecTimersStep
    /\ phase' = "draw"
    /\ UNCHANGED << exit, due >>

\* run: if now >= next_update { next_update = now + delta; self.draw()? },
\* then the sleep of 1/2400 s
RunDraw ==
    /\ phase = "draw"
    /\ phase' = "poll"
    /\ due' = FALSE
    /\ UNCHANGED << sysvars, result, callers, loads, drawn, dumped, armed, exit >>

\* run: ev.poll_events(..) with at most one key event waiting, then
\* if exit { return Ok(()) }
RunPoll ==
    /\ phase = "poll"
    /\ \/ ProcessKeyEventStep
       \/ UNCHANGED << sysvars, result, callers, loads, drawn, dumped, armed >>
    /\ phase' = IF exit = "escape" THEN "exit_ok"
                ELSE IF result'.kind = "InvalidKey" THEN "exit_err"
                ELSE "tick"
    /\ UNCHANGED << exit, due >>

\* display_loop: self.draw()?
RunDisplay ==
    /\ phase = "display"
    /\ phase' = "display_sleep"
    /\ UNCHANGED << sysvars, result, callers, loads, drawn, dumped, armed, exit, due >>

\* display_loop: the sleep of 1/30 s, and round again
RunDisplaySleep ==
    /\ phase = "display_sleep"
    /\ phase' = "display"
    /\ UNCHANGED << sysvars, result, callers, loads, drawn, dumped, armed, exit, due >>

\* the user presses Escape
EnvExit ==
    /\ phase \notin Terminated \cup { "main" }
    /\ exit = "none"
    /\ exit' = "escape"
    /\ UNCHANGED << sysvars, result, callers, loads, drawn, dumped, armed, phase, due >>

\* time passes: Instant::now() reaches next_update
EnvClock ==
    /\ phase \notin Terminated \cup { "main" }
    /\ ~due
    /\ due' = TRUE
    /\ UNCHANGED << sysvars, result, callers, loads, drawn, dumped, armed, phase, exit >>

\* the steps of the program's one thread
Harness ==
    RunLoad \/ RunTick \/ RunDecTimers \/ RunDraw \/ RunPoll \/ RunDisplay \/ RunDisplaySleep

NextRun ==
    \/ RunLoad
    \/ RunTick
    \/ RunDecTimers
    \/ RunDraw
    \/ RunPoll
    \/ RunDisplay
    \/ RunDisplaySleep
    \/ EnvExit
    \/ EnvClock

\* the thread keeps running until it returns or panics
SpecRun == Init /\ [][NextRun]_vars /\ WF_vars(Harness)

(***************************************************************************)
(* Properties.  The fields of an instruction word are read off here by     *)
(* arithmetic, apart from the decoder.                                     *)
(***************************************************************************)
Top(w) == w \div 4096
FieldX(w) == (w \div 256) % 16
FieldY(w) == (w \div 16) % 16
FieldN(w) == w % 16
FieldKK(w) == w % 256
FieldNNN(w) == w % 4096

\* what tick returns when called in the current state (for an instruction
\* that draws no random byte and does not add to I)
TickOutcome == tick(System, 0, FALSE)

\* the last call was a tick that returned kind
TickReturned(kind) == result.op = "tick" /\ result.kind = kind

TickErrors ==
    { "InvalidMemoryAccess", "InvalidRegister", "StackOverflow", "StackUnderflow",
      "InvalidKey", "ZeroInstruction" }

\* C1: whenever tick returns an error, the whole System value (memory,
\* framebuffer, V0..VF, I, PC, stack, SP, timers, keys) is what it was before
\* the call, also for FX33, FX55, FX65 and DXYN when only a later byte of
\* I..I+k is out of range.
C1_ErrorLeavesSystemUnchanged ==
    \A o \in { TickOutcome } :
        o.kind \in TickErrors => o.s = System

\* the skip condition of an instruction word as the specification states it
SkipPredicate(w) ==
    IF Top(w) = 3 THEN reg[FieldX(w)] = FieldKK(w)
    ELSE IF Top(w) = 4 THEN reg[FieldX(w)] # FieldKK(w)
    ELSE IF Top(w) = 5 /\ FieldN(w) = 0 THEN reg[FieldX(w)] = reg[FieldY(w)]
    ELSE IF Top(w) = 9 /\ FieldN(w) = 0 THEN reg[FieldX(w)] # reg[FieldY(w)]
    ELSE IF Top(w) = 14 /\ FieldKK(w) = \h9E THEN keys[reg[FieldX(w)] % 16] # 0
    ELSE IF Top(w) = 14 /\ FieldKK(w) = \hA1 THEN keys[reg[FieldX(w)] % 16] = 0
    ELSE FALSE

\* JP, CALL, RET, JP V0+addr, LD Vx,K
IsControlFlow(w) ==
    \/ Top(w) \in { 1, 2, 11 }
    \/ w = \h00EE
    \/ (Top(w) = 15 /\ FieldKK(w) = \h0A)

\* C2: when tick succeeds, JP NNN and CALL NNN leave PC = NNN exactly; an
\* instruction that is not JP, CALL, RET, JP V0+addr or LD Vx,K leaves
\* PC = old PC + 2, or old PC + 4 when it is a skip whose predicate holds.
C2_PcAdvance ==
    \A o \in { TickOutcome }, w \in { NextWord } :
        o.kind = "Ok" =>
            IF Top(w) \in { 1, 2 } THEN o.s.pc = FieldNNN(w)
            ELSE IF IsControlFlow(w) THEN TRUE
            ELSE o.s.pc = pc + (IF SkipPredicate(w) THEN 4 ELSE 2)

\* C3: in a properly nested sequence of CALLs and RETs (depth at most 16)
\* each RET leaves PC at the address after its matching CALL (CALL address
\* + 2) and SP at its value before that CALL, so that after the last RET SP
\* is what it was before the first CALL.
C3_ReturnToCaller ==
    \A o \in { TickOutcome }, w \in { NextWord } :
        /\ Len(callers) <= STACK_LEN
        /\ (w = \h00EE /\ callers # <<>>) =>
              /\ o.kind = "Ok"
              /\ o.s.pc = Head(callers).addr + 2
              /\ o.s.sp = Head(callers).sp
        /\ (callers = <<>> /\ result.op = "tick") => sp = 0

\* sixteen nested calls were made and all returned: back after the first CALL
C3_Witness ==
    /\ TickReturned("Ok")
    /\ callers = <<>>
    /\ pc = \h202
    /\ sp = 0
    /\ stack[0] = \h200
    /\ stack[15] = \h23C

\* C4: 0 <= SP <= 16 in every reachable state; a CALL with SP = 16 fails
\* with StackOverflow and a RET with SP = 0 fails with StackUnderflow,
\* neither changing SP, the stack frames or PC.
C4_StackBounds ==
    \A o \in { TickOutcome }, w \in { NextWord } :
        /\ 0 <= sp /\ sp <= 16
        /\ (Top(w) = 2 /\ sp = 16) =>
              /\ o.kind = "StackOverflow"
              /\ o.s.sp = sp /\ o.s.stack = stack /\ o.s.pc = pc
        /\ (w = \h00EE /\ sp = 0) =>
              /\ o.kind = "StackUnderflow"
              /\ o.s.sp = sp /\ o.s.stack = stack /\ o.s.pc = pc

\* the 17th nested CALL was refused
C4_Witness == TickReturned("StackOverflow") /\ sp = 16 /\ Len(callers) = 16

\* the words the claim lists as matching no family
NoFamily(w) ==
    \/ (Top(w) = 0 /\ w \notin { \h0000, \h00E0, \h00EE })
    \/ (Top(w) \in { 5, 9 } /\ FieldN(w) # 0)
    \/ (Top(w) = 8 /\ FieldN(w) \notin { 0, 1, 2, 3, 4, 5, 6, 7, 14 })
    \/ (Top(w) = 14 /\ FieldKK(w) \notin { \h9E, \hA1 })
    \/ (Top(w) = 15 /\ FieldKK(w) \notin
            { \h07, \h0A, \h15, \h18, \h1E, \h29, \h33, \h55, \h65 })

\* C5: a nonzero fetched word that matches no decoder family makes tick
\* return the typed error UnknownOpcode{code} with that word (no abort, no
\* panic) and leaves the System unchanged.
C5_UnknownOpcodeIsAnError ==
    \A o \in { TickOutcome }, w \in { NextWord } :
        (fetch_instruction(System).kind = "Ok" /\ NoFamily(w)) =>
            /\ o.kind = "UnknownOpcode"
            /\ o.arg = w
            /\ o.s = System

\* C6: LD Vx,K (FX0A) with no key pressed is a successful tick that leaves
\* PC at the instruction and Vx unchanged; once a key k has been pressed the
\* tick stores k in Vx and advances PC by 2.
C6_BlockGetKeyWaits ==
    \A o \in { TickOutcome }, w \in { NextWord } :
        (Top(w) = 15 /\ FieldKK(w) = \h0A) =>
            /\ o.kind = "Ok"
            /\ IF \A k \in 0 .. 15 : keys[k] = 0
               THEN o.s.pc = pc /\ o.s.reg = reg
               ELSE o.s.pc = pc + 2 /\ keys[o.s.reg[FieldX(w)]] # 0

\* C7: with PC >= 0xFFF (PC or PC + 1 outside memory) tick fails with
\* InvalidMemoryAccess{addr: PC} and changes nothing; with PC <= 0xFFE the
\* fetched word is memory[PC] * 256 + memory[PC + 1].
C7_Fetch ==
    \A o \in { TickOutcome }, f \in { fetch_instruction(System) } :
        /\ pc >= \hFFF =>
              o = [s |-> System, kind |-> "InvalidMemoryAccess", arg |-> pc]
        /\ pc <= \hFFE =>
              /\ f.kind = "Ok"
              /\ f.arg = MemGet(mem, pc) * 256 + MemGet(mem, pc + 1)

\* the fetch at 0xFFF was refused
C7_Witness == TickReturned("InvalidMemoryAccess") /\ pc = \hFFF /\ result.arg = \hFFF

\* C8: when the in-range word at PC is 0x0000 tick fails with
\* ZeroInstruction (never an unknown opcode) and leaves PC and all other
\* state unchanged, so the next tick from there fails the same way.
C8_ZeroInstruction ==
    \A o \in { TickOutcome } :
        (pc <= \hFFE /\ MemGet(mem, pc) = 0 /\ MemGet(mem, pc + 1) = 0) =>
            /\ o = [s |-> System, kind |-> "ZeroInstruction", arg |-> 0]
            /\ tick(o.s, 0, FALSE) = o

\* a subroutine returned into zero memory: the tick at 0x202 was refused
C8_Witness == TickReturned("ZeroInstruction") /\ pc = \h202 /\ sp = 0 /\ stack[0] = \h200

\* the flag each flag-setting ALU instruction computes from its operands
AluFlag(n, vx, vy) ==
    IF n = 4 THEN (IF vx + vy > 255 THEN 1 ELSE 0)
    ELSE IF n = 5 THEN (IF vx >= vy THEN 1 ELSE 0)
    ELSE IF n = 6 THEN vx % 2
    ELSE IF n = 7 THEN (IF vy >= vx THEN 1 ELSE 0)
    ELSE vx \div 128

\* the low 8 bits of each flag-setting ALU instruction's arithmetic result
AluResult(n, vx, vy) ==
    IF n = 4 THEN (vx + vy) % 256
    ELSE IF n = 5 THEN (vx - vy + 256) % 256
    ELSE IF n = 6 THEN vx \div 2
    ELSE IF n = 7 THEN (vy - vx + 256) % 256
    ELSE (2 * vx) % 256

IsFlagAlu(w) == Top(w) = 8 /\ FieldN(w) \in { 4, 5, 6, 7, 14 }

\* C9: for 8XY4, 8XY5, 8XY6, 8XY7 and 8XYE with X = 0xF, for all operand
\* values, VF after the tick is the flag (0 or 1) computed from the operands
\* as read before the instruction, not the low 8 bits of the result.
C9_FlagWrittenLast ==
    \A o \in { TickOutcome }, w \in { NextWord } :
        (IsFlagAlu(w) /\ FieldX(w) = 15) =>
            /\ o.kind = "Ok"
            /\ o.s.reg[15] = AluFlag(FieldN(w), reg[15], reg[FieldY(w)])
            /\ o.s.reg[15] \in { 0, 1 }

\* ADD VF,VF has run on VF = 0xFF and VF holds the carry 1, which the sum
\* (an even number) cannot be
C9_Witness ==
    /\ TickReturned("Ok")
    /\ pc = \h208
    /\ MemGet(mem, \h206) * 256 + MemGet(mem, \h207) = \h8FF4
    /\ MemGet(mem, \h205) = 255
    /\ reg[15] = 1

\* C10: for all 8-bit Vx, Vy and X # 0xF: ADD Vx,Vy gives Vx' = (Vx + Vy)
\* mod 256 and VF = 1 iff Vx + Vy > 255; SUB Vx,Vy gives Vx' = (Vx - Vy) mod
\* 256 and VF = 1 iff Vx >= Vy; SUBN Vx,Vy gives Vx' = (Vy - Vx) mod 256 and
\* VF = 1 iff Vy >= Vx.
C10_AddSubFlags ==
    \A o \in { TickOutcome }, w \in { NextWord } :
        (Top(w) = 8 /\ FieldN(w) \in { 4, 5, 7 } /\ FieldX(w) # 15) =>
            /\ o.kind = "Ok"
            /\ o.s.reg[FieldX(w)] = AluResult(FieldN(w), reg[FieldX(w)], reg[FieldY(w)])
            /\ o.s.reg[15] = AluFlag(FieldN(w), reg[FieldX(w)], reg[FieldY(w)])

\* SUB V0,V1 has run on 0 - 1: V0 = 0xFF and VF = 0 (a borrow)
C10_Witness ==
    /\ TickReturned("Ok")
    /\ pc = \h208
    /\ MemGet(mem, \h206) * 256 + MemGet(mem, \h207) = \h8015
    /\ MemGet(mem, \h201) = 0
    /\ reg[0] = 255
    /\ reg[1] = 1
    /\ reg[15] = 0

\* C11: JP V0+addr (BNNN) sets PC to (V0 + addr) & 0x0FFF, a value in
\* [0, 0x0FFF], and no further +2 is applied.
C11_JumpPlusMasked ==
    \A o \in { TickOutcome }, w \in { NextWord } :
        Top(w) = 11 =>
            /\ o.kind = "Ok"
            /\ o.s.pc = (reg[0] + FieldNNN(w)) % 4096
            /\ o.s.pc \in 0 .. \h0FFF

\* C12: SKP Vx (EX9E) skips the next instruction iff the key whose index is
\* the value of Vx, masked with 0x0F, is pressed, and SKNP Vx (EXA1) skips
\* iff that key is not pressed: the contents of Vx decide, not the number X.
C12_SkipOnKeyInVx ==
    \A o \in { TickOutcome }, w \in { NextWord } :
        (Top(w) = 14 /\ FieldKK(w) \in { \h9E, \hA1 }) =>
            /\ o.kind = "Ok"
            /\ o.s.pc \in { pc + 2, pc + 4 }
            /\ (o.s.pc = pc + 4) <=>
                  IF FieldKK(w) = \h9E
                  THEN keys[reg[FieldX(w)] % 16] # 0
                  ELSE keys[reg[FieldX(w)] % 16] = 0

\* C13: for every value of Vx, LD F,Vx (FX29) sets I to 5 * (Vx & 0x0F), one
\* of the 16 glyph addresses 0, 5, ..., 75 in the font area.
C13_GetSpriteMasked ==
    \A o \in { TickOutcome }, w \in { NextWord } :
        (Top(w) = 15 /\ FieldKK(w) = \h29) =>
            /\ o.kind = "Ok"
            /\ o.s.index = 5 * (reg[FieldX(w)] % 16)
            /\ o.s.index \in { 5 * d : d \in 0 .. 15 }

\* C14: ADD I,Vx (FX1E) succeeds and sets I to (I + Vx) mod 65536, also when
\* I + Vx exceeds 0xFFFF, and leaves VF and every other register unchanged.
C14_AddIndexWraps ==
    \A w \in { NextWord } :
        (Top(w) = 15 /\ FieldKK(w) = \h1E) =>
            \A checks \in BOOLEAN :
                \A o \in { tick(System, 0, checks) } :
                    /\ o.kind = "Ok"
                    /\ o.s.index = (index + reg[FieldX(w)]) % 65536
                    /\ o.s.reg = reg

\* the pixel at column col of row row of a framebuffer: bit 7 - (col mod 8)
\* of byte row * 8 + col / 8
PixelAt(scr, col, row) == (scr[row * 8 + col \div 8] \div Pow2(7 - (col % 8))) % 2

Pixels == (0 .. 63) \X (0 .. 31)

\* the sprite the next DRW reads has a set bit
SpriteHasBit(w) == \E r \in 0 .. FieldN(w) - 1 : MemGet(mem, index + r) # 0

\* C15: after a successful DRW Vx,Vy,N, VF is 0 or 1, and VF = 1 iff some
\* pixel that was set before the draw is unset after it; with N = 0 the
\* framebuffer is unchanged and VF = 0.
C15_DrawCollision ==
    \A o \in { TickOutcome }, w \in { NextWord } :
        (Top(w) = 13 /\ o.kind = "Ok") =>
            /\ o.s.reg[15] \in { 0, 1 }
            /\ (o.s.reg[15] = 1) <=>
                  \E p \in Pixels : /\ PixelAt(screen, p[1], p[2]) = 1
                                    /\ PixelAt(o.s.screen, p[1], p[2]) = 0
            /\ FieldN(w) = 0 => (o.s.screen = screen /\ o.s.reg[15] = 0)

\* the second draw met the first sprite one column to its left: VF = 1
C15_Witness ==
    /\ TickReturned("Ok")
    /\ pc = \h20C
    /\ drawn.w = \hD013
    /\ drawn.vx = 1
    /\ reg[15] = 1
    /\ drawn.before[0] = \hFF
    /\ drawn.after[0] = \h80
    /\ drawn.after[1] = \h80

\* the pixels a DRW toggles: column (Vx + c) mod 64, row (Vy + r) mod 32 for
\* each set bit 7 - c of sprite byte memory[I + r]
Toggled(w) ==
    { << (reg[FieldX(w)] + c) % 64, (reg[FieldY(w)] + r) % 32 >> :
        << r, c >> \in { rc \in (0 .. FieldN(w) - 1) \X (0 .. 7) :
                          (MemGet(mem, index + rc[1]) \div Pow2(7 - rc[2])) % 2 = 1 } }

\* the next DRW repeats the last one: same word (X, Y, N), I, Vx, Vy and
\* sprite bytes, on the screen the last one left
RepeatsLastDraw(w) ==
    /\ Top(w) = 13
    /\ FieldX(w) # 15
    /\ FieldY(w) # 15
    /\ drawn.w = w
    /\ drawn.index = index
    /\ drawn.vx = reg[FieldX(w)]
    /\ drawn.vy = reg[FieldY(w)]
    /\ drawn.sprite = Sprite(System, FieldN(w))
    /\ drawn.after = screen

\* C16 as stated: the same DRW executed twice (same I, sprite bytes, Vx, Vy,
\* N, with X, Y # F) restores the framebuffer to what it was before the
\* first draw, and the second draw sets VF = 1 whenever the sprite has a
\* set bit.
C16_DrawTwiceRestores_AsStated ==
    \A o \in { TickOutcome }, w \in { NextWord } :
        RepeatsLastDraw(w) =>
            /\ o.kind = "Ok"
            /\ o.s.screen = drawn.before
            /\ SpriteHasBit(w) => o.s.reg[15] = 1

\* C16: the same DRW executed twice (same I, sprite bytes, Vx, Vy, N, with
\* X, Y # F) restores the framebuffer to what it was before the first draw,
\* and the second draw sets VF = 1 iff the sprite has a set bit on a pixel
\* that was unset before the first draw: whenever the sprite has a set bit,
\* if the framebuffer started cleared.
C16_DrawTwiceRestores ==
    \A o \in { TickOutcome }, w \in { NextWord } :
        RepeatsLastDraw(w) =>
            /\ o.kind = "Ok"
            /\ o.s.screen = drawn.before
            /\ (o.s.reg[15] = 1) <=>
                  \E p \in Toggled(w) : PixelAt(drawn.before, p[1], p[2]) = 0
            /\ (drawn.before = DefaultSystem.screen /\ SpriteHasBit(w)) =>
                  (o.s.reg[15] = 1 /\ o.s.screen = DefaultSystem.screen)

\* drawn at (61, 30), moved to (62, 30), drawn again and once more: the
\* screen is back to the first draw alone, and VF = 1
C16_Witness ==
    /\ TickReturned("Ok")
    /\ pc = \h20E
    /\ drawn.w = \hD013
    /\ drawn.vx = 62
    /\ drawn.vy = 30
    /\ drawn.after # drawn.before
    /\ reg[15] = 1
    /\ PixelAt(screen, 61, 30) = 1
    /\ PixelAt(screen, 4, 30) = 1
    /\ PixelAt(screen, 5, 30) = 0
    /\ PixelAt(screen, 61, 0) = 1

\* C17: DRW Vx,Vy,N XORs bit 7 - c of memory[I + r] into the pixel at column
\* (Vx + c) mod 64, row (Vy + r) mod 32 (wrapping on both axes, never
\* clipping), that pixel being bit 7 - (col mod 8) of byte row * 8 + col / 8
\* of the framebuffer; no other framebuffer bit changes.
C17_DrawPixels ==
    \A o \in { TickOutcome }, w \in { NextWord } :
        (Top(w) = 13 /\ index + FieldN(w) <= MEM_LEN) =>
            /\ o.kind = "Ok"
            /\ \A t \in { Toggled(w) } :
                 \A p \in Pixels :
                    PixelAt(o.s.screen, p[1], p[2]) =
                        IF p \in t THEN 1 - PixelAt(screen, p[1], p[2])
                        ELSE PixelAt(screen, p[1], p[2])

\* a full row drawn at (255, 255): columns 63, 0 .. 6 of row 31
C17_Witness ==
    /\ TickReturned("Ok")
    /\ pc = \h208
    /\ drawn.w = \hD011
    /\ drawn.vx = 255
    /\ drawn.vy = 255
    /\ drawn.before = DefaultSystem.screen
    /\ screen[31 * 8 + 7] = \h01
    /\ screen[31 * 8] = \hFE
    /\ \A at \in 0 .. 31 * 8 - 1 : screen[at] = 0

\* C18: for I + X < 4096, LD [I],Vx (FX55) writes V0..VX to
\* memory[I..I+X] and changes no register, no other memory byte and not I;
\* a following LD Vx,[I] (FX65) with the same I and X restores V0..VX to
\* their values at the dump, whatever the registers held in between, and
\* leaves I unchanged.
C18_RegDumpLoad ==
    \A o \in { TickOutcome }, w \in { NextWord } :
        /\ (Top(w) = 15 /\ FieldKK(w) = \h55 /\ index + FieldX(w) < MEM_LEN) =>
              /\ o.kind = "Ok"
              /\ o.s.reg = reg
              /\ o.s.index = index
              /\ \A a \in 0 .. MEM_LEN - 1 :
                    MemGet(o.s.mem, a) =
                        IF index <= a /\ a <= index + FieldX(w)
                        THEN reg[a - index] ELSE MemGet(mem, a)
        /\ ( /\ Top(w) = 15
             /\ FieldKK(w) = \h65
             /\ dumped.x = FieldX(w)
             /\ dumped.index = index
             /\ \A i \in 0 .. FieldX(w) :
                   MemGet(mem, index + i) = MemGet(dumped.mem, index + i) ) =>
              /\ o.kind = "Ok"
              /\ \A i \in 0 .. FieldX(w) : o.s.reg[i] = dumped.reg[i]
              /\ \A i \in FieldX(w) + 1 .. 15 : o.s.reg[i] = reg[i]
              /\ o.s.index = index
              /\ o.s.mem = mem

\* V0..VF dumped at 0xFF0..0xFFF, V0, V7 and VF cleared, and loaded back
C18_Witness ==
    /\ TickReturned("Ok")
    /\ pc = \h212
    /\ dumped.x = 15
    /\ dumped.index = \hFF0
    /\ index = \hFF0
    /\ reg[0] = 1
    /\ reg[7] = 7
    /\ reg[15] = \hFF
    /\ MemGet(mem, \hFFF) = \hFF
    /\ MemGet(mem, \hFF7) = 7

\* C19: each dec_timers call sets delay to max(delay - 1, 0) and sound to
\* max(sound - 1, 0), changes nothing else, and returns true iff sound was 1
\* before the call; both timers stay in [0, 255], and a sound value s > 0
\* set once yields exactly one true, on the s-th call after it.
C19_DecTimers ==
    /\ delay \in 0 .. 255
    /\ sound \in 0 .. 255
    /\ \A o \in { dec_timers(System) } :
          /\ o.s.delay = (IF delay - 1 > 0 THEN delay - 1 ELSE 0)
          /\ o.s.sound = (IF sound - 1 > 0 THEN sound - 1 ELSE 0)
          /\ o.s = [System EXCEPT !.delay = o.s.delay, !.sound = o.s.sound]
          /\ (o.kind = "true") <=> (sound = 1)
    /\ armed.s > 0 => armed.trues = (IF armed.n >= armed.s THEN 1 ELSE 0)
    /\ (result.op = "dec_timers" /\ result.kind = "true") =>
          (armed.s > 0 /\ armed.n = armed.s /\ sound = 0)

\* sound was set to 3 and the third dec_timers call after it returned true
C19_Witness ==
    /\ result = [op |-> "dec_timers", kind |-> "true", arg |-> 0]
    /\ armed = [s |-> 3, n |-> 3, trues |-> 1]
    /\ sound = 0
    /\ delay = 0

\* C20: load of a stream of n <= 3584 bytes succeeds and copies it to
\* memory[0x200 .. 0x200+n), leaving every other memory byte (the font
\* included) and all other state unchanged; load of n >= 3585 bytes fails
\* with ProgramTooLarge and leaves memory unchanged.
C20_Load ==
    loads < MaxLoads =>
        \A buf \in Programs :
            \A o \in { load(System, buf) } :
                IF Len(buf) <= 3584
                THEN /\ o.kind = "Ok"
                     /\ \A a \in 0 .. MEM_LEN - 1 :
                           MemGet(o.s.mem, a) =
                               IF \h200 <= a /\ a < \h200 + Len(buf)
                               THEN buf[a - \h200 + 1] ELSE MemGet(mem, a)
                     /\ o.s = [System EXCEPT !.mem = o.s.mem]
                ELSE /\ o.kind = "ProgramTooLarge"
                     /\ o.s = System

\* a stream of 3584 bytes was loaded: its last byte is at 0xFFF, the font
\* is in place
C20_Witness ==
    /\ result = [op |-> "load", kind |-> "Ok", arg |-> 0]
    /\ loads = 1
    /\ MemGet(mem, \hFFF) = \hAA
    /\ MemGet(mem, \h200) = \h12
    /\ \A i \in 1 .. Len(FONTS) : MemGet(mem, i - 1) = FONTS[i]
    /\ DOMAIN mem = { a \in 0 .. \h4F : FONTS[a + 1] # 0 } \cup { \h200, \hFFF }

\* the default System with the ROM 22 04 00 00 00 EE loaded at 0x200
CallRetLoaded == load(DefaultSystem, Bytes(<< \h2204, \h0000, \h00EE >>)).s

\* the System two ticks after the current state, when both ticks succeed
AfterTwoTicks ==
    { o2.s : o2 \in { o \in { tick(o1.s, 0, FALSE) :
                                o1 \in { o \in { TickOutcome } : o.kind = "Ok" } } :
                      o.kind = "Ok" } }

\* C21 as stated: from the default System with the ROM 22 04 00 00 00 EE
\* loaded at 0x200, after exactly 2 successful ticks (CALL 0x204, then RET)
\* PC = 0x206 and SP = 0.
C21_CallThenRet_AsStated ==
    /\ System = CallRetLoaded =>
          /\ AfterTwoTicks # {}
          /\ \A s \in AfterTwoTicks : s.pc = \h206 /\ s.sp = 0
    /\ (mem = CallRetLoaded.mem /\ TickReturned("Ok") /\ callers = << >>) =>
          (pc = \h206 /\ sp = 0)

\* C21: from the default System with the ROM 22 04 00 00 00 EE loaded at
\* 0x200, after exactly 2 successful ticks (CALL 0x204, then RET) PC = 0x202,
\* the address after the CALL, and SP = 0.
C21_CallThenRet ==
    /\ System = CallRetLoaded =>
          /\ AfterTwoTicks # {}
          /\ \A s \in AfterTwoTicks : s.pc = \h202 /\ s.sp = 0
    /\ (mem = CallRetLoaded.mem /\ TickReturned("Ok") /\ callers = << >>) =>
          (pc = \h202 /\ sp = 0)

\* the two ticks were made: the CALL left its frame, the RET came back
C21_Witness ==
    /\ mem = CallRetLoaded.mem
    /\ TickReturned("Ok")
    /\ callers = << >>
    /\ stack[0] = \h200
    /\ pc = \h202
    /\ sp = 0
    /\ NextWord = 0

\* C22: in every harness state, the run loop and the display-only loop
\* entered after ZeroInstruction, an exit signal (Escape / window close)
\* eventually makes the harness loop terminate (with Ok, unless an error
\* ends it first); a tick error other than ZeroInstruction terminates the
\* loop with that error.
C22_ExitTerminates ==
    /\ (exit # "none") ~> (phase \in Terminated)
    /\ [](\A e \in TickErrors \ { "ZeroInstruction" } :
            TickReturned(e) => phase = "exit_err")

\* C23: the harness calls dec_timers on its own 60 Hz schedule, not once
\* per tick: whenever it is about to call dec_timers, a 1/60 s period has
\* elapsed (Instant::now() has reached next_update).
C23_TimersOnSchedule == phase = "timers" => due

\* C24: for every 16-bit word at most one of the decoder's match predicates
\* (Opcode::cmp over all Opcode variants) holds, so the instruction tick
\* executes for a word does not depend on the order in which match_opcodes
\* tries the families.
C24_DecoderExclusive ==
    \A w \in { NextWord } :
        Cardinality({ op \in Opcodes : cmp(op, w) }) <= 1

\* ADD I,V0 (FX1E, tried before the EX9E / EXA1 families) was decoded and
\* executed
C24_Witness ==
    /\ TickReturned("Ok")
    /\ MemGet(mem, \h200) = \hF0
    /\ MemGet(mem, \h201) = \h1E
    /\ Cardinality({ op \in Opcodes : cmp(op, \hF01E) }) = 1
    /\ pc = \h202

\* C26: tick never returns InvalidRegister or InvalidKey, for any memory
\* contents and any reachable state: every register and key index it uses
\* is a 4-bit field of the opcode, or a loop index bounded by one.
C26_NoInvalidRegisterOrKey ==
    /\ \A o \in { TickOutcome } : o.kind \notin { "InvalidRegister", "InvalidKey" }
    /\ result.op = "tick" => result.kind \notin { "InvalidRegister", "InvalidKey" }

\* LD VF,[I] (FF65) ran: its loop passed every index 0..15 to
\* Registers::write
C26_Witness ==
    /\ TickReturned("Ok")
    /\ MemGet(mem, \h200) = \hFF
    /\ MemGet(mem, \h201) = \h65
    /\ pc = \h202
    /\ reg[0] = \hF0
    /\ reg[15] = FONTS[16]

\* C25: in every reachable state PC <= 0x10FE and every frame stored on the
\* stack is <= 0xFFE, so no PC update in tick (the final pc += 2, the one of
\* a skip, V0 + addr in BNNN, RET's stack[SP] + 2) exceeds 16 bits.
C25_PcBound ==
    /\ pc <= \h10FE
    /\ \A i \in 0 .. STACK_LEN - 1 : stack[i] <= \h0FFE
    /\ \A o \in { TickOutcome } : o.s.pc <= \h10FE

\* CALL at 0xFFE left the frame 0xFFE, and JP V0+0xFFF with V0 = 0xFF the
\* largest PC
C25_Witness ==
    /\ TickReturned("Ok")
    /\ pc = \h10FE
    /\ sp = 1
    /\ stack[0] = \h0FFE
    /\ reg[0] = \hFF

====
